---------------------------- MODULE Spec2Model ----------------------------
(***************************************************************************)
(* Model of markdown-bold-lint (src/src/extension.ts).                     *)
(*                                                                         *)
(* Text is modelled as the program sees it: a line is a sequence of UTF-16 *)
(* code units (natural numbers), a document is a sequence of lines.  The   *)
(* regular expressions of the source are modelled by the matching they     *)
(* perform on code units.                                                  *)
(***************************************************************************)
EXTENDS Integers, Sequences, FiniteSets, TLC

VARIABLES
    args,       \* SpecDetect: the (delimiter, content, after) triple given to detectIssue
    issue,      \* SpecDetect: what detectIssue returned, or Pending before the call
    pc,         \* Spec: where collectDiagnostics is ("loop", "done"), "idle" elsewhere
    document,   \* Spec: the document being scanned, a sequence of lines
    options,    \* Spec: the LintOptions of the scan
    lineNumber, \* Spec: the loop variable of collectDiagnostics
    inCodeFence,            \* collectDiagnostics' fence state
    diagnostics,            \* Spec: collectDiagnostics' diagnostics array
    controlCharDecorations, \* Spec: collectDiagnostics' decorations array
    mask,       \* SpecMask, SpecTotal: the locals of the maskInlineCode call in progress
    docText,    \* SpecHost: the content of every open document
    config,     \* SpecHost: the value of markdownBoldLint.boldIssueUnderline
    published,  \* SpecHost: the diagnostic collection, per document
    timeout,    \* SpecHost: debounce's timeout variable, 0 for null
    timers,     \* SpecHost: the host's pending timers, each with its document, the ms
                \* it has waited and (history) whether a deletion event for the
                \* document's file was handled while it was pending
    disposed,   \* SpecHost: the subscriptions have been disposed
    scanned,    \* SpecHost (history): content, options and hints of each document's last scan
    dirty,      \* SpecHost (history): the document changed and has not been scanned since
    quiet,      \* SpecHost (history): ms since the last change event, up to the wait
    burst,      \* SpecHost (history): the change events since a timer was last not pending
    prewarm     \* SpecPrewarm: prewarmWorkspaceDiagnostics' promise and its per-file tasks

detectVars == <<args, issue>>

scanVars ==
    <<pc, document, options, lineNumber, inCodeFence, diagnostics, controlCharDecorations,
      mask>>

hostVars ==
    <<docText, config, published, timeout, timers, disposed, scanned, dirty, quiet, burst,
      prewarm>>

vars == <<detectVars, scanVars, hostVars>>

-----------------------------------------------------------------------------
(* Code units the source names in its regular expressions and samples.     *)

Star == 42
Underscore == 95
Backtick == 96
Tilde == 126
Backslash == 92
LetterA == 97
Bang == 33
SpaceChar == 32
Hangul == 44032
Bel == 7
Tab == 9
LineFeed == 10
CarriageReturn == 13

Str2(c) == <<c, c>>
Str3(c) == <<c, c, c>>

DIAGNOSTIC_CODES ==
    [TRAILING_SYMBOL |-> "MBL001", UNDERSCORE_CJK |-> "MBL002", CONTROL_CHAR |-> "MBL005"]

Warning == "Warning"

\* The character class of CJK_REGEX on one code unit:
\* U+AC00-U+D7A3, U+4E00-U+9FAF, U+3041-U+309F, U+30A0-U+30FF
IsCjk(c) ==
    \/ c \in 44032..55203
    \/ c \in 19968..40879
    \/ c \in 12353..12447
    \/ c \in 12448..12543

\* The character class of PROBLEMATIC_TRAILING_SYMBOL_REGEX, in source order
TrailingSymbols ==
    {41, 34, 39, 93, 125, 65289, 65341, 65373, 8221, 8217, 12301, 12303, 12305,
     33, 63, 58, 59, 37, 43, 38, 64, 36, 94, 61, 124, 47, 167, 8251, 8226,
     65281, 65311, 65292, 65306, 65307, 65285, 44, 46, 126, 35, 45, 183, 8230,
     12290, 12289, 65286, 65312, 65295}

\* CJK_REGEX.test(s): some code unit of s is in the class
CjkRegexTest(s) == \E i \in 1..Len(s) : IsCjk(s[i])

\* PROBLEMATIC_TRAILING_SYMBOL_REGEX.test(s): the class anchored by $ (no m flag)
TrailingSymbolRegexTest(s) == Len(s) > 0 /\ s[Len(s)] \in TrailingSymbols

-----------------------------------------------------------------------------
(* detectIssue.  The message texts are the source's, with the backquotes   *)
(* around the markers written as quotes.                                   *)

Null == [code |-> "null"]

UnderscoreCjkIssue ==
    [code |-> DIAGNOSTIC_CODES.UNDERSCORE_CJK,
     severity |-> Warning,
     highlightExtra |-> 1,
     message |-> "Underscore bold ('__...__') is immediately followed by CJK text without a space. Some Markdown renderers treat this as intraword and fail to close bold. Consider using '**...**' or inserting a space."]

\* Mutant: the highlight goes two characters past the span.
TrailingSymbolIssueWide ==
    [code |-> DIAGNOSTIC_CODES.TRAILING_SYMBOL,
     severity |-> Warning,
     highlightExtra |-> 2,
     message |-> "Bold text ends with a symbol right before the closing marker and is immediately followed by CJK text without a space."]

TrailingSymbolIssue ==
    [code |-> DIAGNOSTIC_CODES.TRAILING_SYMBOL,
     severity |-> Warning,
     highlightExtra |-> 1,
     message |-> "Bold text ends with a symbol right before the closing marker and is immediately followed by CJK text without a space. Some Markdown renderers fail to close bold. Consider moving the symbol outside bold, adding a space, or including the particle in bold."]

\* Mutant: the trailing-symbol rule is tested before the underscore rule.
detectIssueSymbolFirst(delimiter, content, after) ==
    LET isAfterCjk == after # << >> /\ CjkRegexTest(after)
        endsWithProblematicSymbol == TrailingSymbolRegexTest(content)
    IN  IF isAfterCjk /\ endsWithProblematicSymbol
        THEN TrailingSymbolIssue
        ELSE IF delimiter = Str2(Underscore) /\ isAfterCjk
             THEN UnderscoreCjkIssue
             ELSE Null

detectIssue(delimiter, content, after) ==
    LET isAfterCjk == after # << >> /\ CjkRegexTest(after)
        endsWithProblematicSymbol == TrailingSymbolRegexTest(content)
    IN  IF delimiter = Str2(Underscore) /\ isAfterCjk
        THEN UnderscoreCjkIssue
        ELSE IF isAfterCjk /\ endsWithProblematicSymbol
             THEN TrailingSymbolIssue
             ELSE Null

-----------------------------------------------------------------------------
(* maskInlineCode: inline-code spans replaced by spaces, one per code unit. *)

Min(a, b) == IF a < b THEN a ELSE b

Repeat(c, n) == [k \in 1..n |-> c]

\* Mutant: the inner loop does not advance.
RunEndStays(lineText, i) == i

\* The inner while loop: the first position at or after i that holds no backtick
RECURSIVE RunEnd(_, _)
RunEnd(lineText, i) ==
    IF i <= Len(lineText) /\ lineText[i] = Backtick
    THEN RunEnd(lineText, i + 1)
    ELSE i

\* Mutant: any backtick run closes an open span, whatever its length.
ClosesSpanAnyRun(runLength, tickLength) == TRUE

\* else if (runLength === tickLength)
ClosesSpan(runLength, tickLength) == runLength = tickLength

\* The outer while loop from position i (1-based) in state (inInlineCode, tickLength)
RECURSIVE MaskFrom(_, _, _, _)
MaskFrom(lineText, i, inInlineCode, tickLength) ==
    IF i > Len(lineText)
    THEN << >>
    ELSE IF lineText[i] = Backtick
         THEN LET runEnd == RunEnd(lineText, i)
                  runLength == runEnd - i
                  closes == inInlineCode /\ ClosesSpan(runLength, tickLength)
              IN  Repeat(SpaceChar, runLength)
                  \o MaskFrom(lineText, runEnd,
                              IF ~inInlineCode THEN TRUE ELSE ~closes,
                              IF ~inInlineCode THEN runLength
                              ELSE IF closes THEN 0 ELSE tickLength)
         ELSE <<IF inInlineCode THEN SpaceChar ELSE lineText[i]>>
              \o MaskFrom(lineText, i + 1, inInlineCode, tickLength)

\* Mutant: nothing is masked.
maskNothing(lineText) == lineText

maskInlineCode(lineText) == MaskFrom(lineText, 1, FALSE, 0)

-----------------------------------------------------------------------------
(* BOLD_REGEX = /(\*\*|__)([^\r\n]+?)\1/g under String.prototype.matchAll.  *)
(* Columns are 0-based as in the source; sequences are indexed from 1.      *)

IsDelimiterAt(s, i) ==
    /\ i + 1 <= Len(s)
    /\ s[i] = s[i + 1]
    /\ s[i] \in {Star, Underscore}

\* The lazy quantifier: the least k >= 1 such that k code units other than CR
\* and LF are followed by the opening delimiter again; 0 when there is none.
RECURSIVE LazyContentLen(_, _, _)
LazyContentLen(s, i, k) ==
    IF i + 2 + k + 1 > Len(s) \/ s[i + 1 + k] \in {CarriageReturn, LineFeed}
    THEN 0
    ELSE IF s[i + 2 + k] = s[i] /\ s[i + 3 + k] = s[i]
         THEN k
         ELSE LazyContentLen(s, i, k + 1)

\* Length of the match that starts at position i (1-based), 0 when none does
MatchLenAt(s, i) ==
    IF ~IsDelimiterAt(s, i)
    THEN 0
    ELSE LET k == LazyContentLen(s, i, 1)
         IN  IF k = 0 THEN 0 ELSE k + 4

\* matchAll: leftmost match, then on from its end
RECURSIVE BoldMatchesFrom(_, _)
BoldMatchesFrom(s, i) ==
    IF i > Len(s)
    THEN << >>
    ELSE LET n == MatchLenAt(s, i)
         IN  IF n > 0
             THEN <<[index |-> i - 1, length |-> n, delimiter |-> <<s[i], s[i + 1]>>]>>
                  \o BoldMatchesFrom(s, i + n)
             ELSE BoldMatchesFrom(s, i + 1)

BoldMatches(maskedLine) == BoldMatchesFrom(maskedLine, 1)

\* lineText.slice(from, to) with 0 <= from <= to <= length
Slice(lineText, from, to) == SubSeq(lineText, from + 1, to)

\* lineText[i] ?? "" as a string of length 0 or 1
CharAt(lineText, i) ==
    IF i >= 0 /\ i < Len(lineText) THEN <<lineText[i + 1]>> ELSE << >>

-----------------------------------------------------------------------------
(* Diagnostics                                                             *)

DIAGNOSTIC_SOURCE == "markdown-bold-lint"

Position(line, character) == [line |-> line, character |-> character]

Range(start, end) == [start |-> start, end |-> end]

Diagnostic(range, message, severity, code) ==
    [range |-> range, message |-> message, severity |-> severity,
     source |-> DIAGNOSTIC_SOURCE, code |-> code]

\* Mutant: the check looks at the character two columns before the match.
IsEscapedTwoBefore(lineText, index) ==
    index > 1 /\ lineText[index - 1] = Backslash

\* index > 0 && lineText[index - 1] === "\\"  (index is 0-based)
IsEscaped(lineText, index) ==
    index > 0 /\ lineText[index] = Backslash

\* Mutant: the underline option is ignored.
BoldRangeEndAlways(showBoldUnderline, index, highlightEnd) == highlightEnd

\* options.showBoldUnderline ? highlightEnd : index
BoldRangeEnd(showBoldUnderline, index, highlightEnd) ==
    IF showBoldUnderline THEN highlightEnd ELSE index

\* The body of the for loop over the matches, for one match: << >> when the
\* match is skipped, else the one diagnostic pushed.
BoldDiagnosticOf(lineNo, lineText, opts, match) ==
    LET index == match.index
        delimiter == match.delimiter
        contentStart == index + Len(delimiter)
        contentEnd == index + match.length - Len(delimiter)
        content == Slice(lineText, contentStart, contentEnd)
        afterIndex == index + match.length
        after == CharAt(lineText, afterIndex)
        found == detectIssue(delimiter, content, after)
        highlightEnd == Min(Len(lineText), afterIndex + found.highlightExtra)
    IN  IF IsEscaped(lineText, index)
        THEN << >>
        ELSE IF found = Null
             THEN << >>
             ELSE <<Diagnostic(
                      Range(Position(lineNo, index),
                            Position(lineNo,
                                     BoldRangeEnd(opts.showBoldUnderline,
                                                  index, highlightEnd))),
                      <<found.message>>, found.severity, found.code)>>

RECURSIVE BoldDiagnosticsFrom(_, _, _, _, _)
BoldDiagnosticsFrom(lineNo, lineText, opts, matches, k) ==
    IF k > Len(matches)
    THEN << >>
    ELSE BoldDiagnosticOf(lineNo, lineText, opts, matches[k])
         \o BoldDiagnosticsFrom(lineNo, lineText, opts, matches, k + 1)

\* Lines 148-179: the bold scan of one line that is outside every fence
BoldDiagnostics(lineNo, lineText, opts) ==
    BoldDiagnosticsFrom(lineNo, lineText, opts,
                        BoldMatches(maskInlineCode(lineText)), 1)

-----------------------------------------------------------------------------
(* collectControlCharDiagnostics                                           *)

\* Mutant: the class is the whole of U+0000-U+001F.
IsControlCharAllC0(c) == c \in 0..31

\* The character class of CONTROL_CHAR_REGEX
IsControlChar(c) == c \in 0..8 \/ c = 11 \/ c = 12 \/ c \in 14..31

LowerHexDigits ==
    <<"0", "1", "2", "3", "4", "5", "6", "7", "8", "9", "a", "b", "c", "d", "e", "f">>

\* Number.prototype.toString(16)
RECURSIVE ToString16(_)
ToString16(n) ==
    IF n < 16
    THEN <<LowerHexDigits[n + 1]>>
    ELSE ToString16(n \div 16) \o <<LowerHexDigits[(n % 16) + 1]>>

UpperOf(d) ==
    CASE d = "a" -> "A" [] d = "b" -> "B" [] d = "c" -> "C"
      [] d = "d" -> "D" [] d = "e" -> "E" [] d = "f" -> "F"
      [] OTHER -> d

ToUpperCase(s) == [k \in 1..Len(s) |-> UpperOf(s[k])]

\* Mutant: nothing is added in front.
PadStartNothing(s, n, fill) == s

PadStart(s, n, fill) ==
    IF Len(s) >= n THEN s ELSE Repeat(fill, n - Len(s)) \o s

\* codePoint.toString(16).toUpperCase().padStart(4, "0")
Hex(codePoint) == PadStart(ToUpperCase(ToString16(codePoint)), 4, "0")

ControlCharRange(lineNo, index) ==
    Range(Position(lineNo, index), Position(lineNo, index + 1))

ControlCharMessage(hex) ==
    <<"Invisible control character detected (U+">> \o hex
    \o <<"). Remove it to avoid rendering or parsing issues.">>

ControlCharDiagnostic(lineNo, lineText, index) ==
    Diagnostic(ControlCharRange(lineNo, index),
               ControlCharMessage(Hex(lineText[index + 1])),
               Warning, DIAGNOSTIC_CODES.CONTROL_CHAR)

ControlCharDecoration(lineNo, lineText, index) ==
    [range |-> ControlCharRange(lineNo, index),
     contentText |-> <<"[U+">> \o Hex(lineText[index + 1]) \o <<"]">>]

\* Mutant: the matches come last first.
RECURSIVE ControlCharIndicesBackwards(_, _)
ControlCharIndicesBackwards(lineText, i) ==
    IF i > Len(lineText)
    THEN << >>
    ELSE ControlCharIndicesBackwards(lineText, i + 1)
         \o (IF IsControlChar(lineText[i]) THEN <<i - 1>> ELSE << >>)

\* The 0-based columns lineText.matchAll(CONTROL_CHAR_REGEX) yields, in order
RECURSIVE ControlCharIndicesFrom(_, _)
ControlCharIndicesFrom(lineText, i) ==
    IF i > Len(lineText)
    THEN << >>
    ELSE (IF IsControlChar(lineText[i]) THEN <<i - 1>> ELSE << >>)
         \o ControlCharIndicesFrom(lineText, i + 1)

ControlCharIndices(lineText) == ControlCharIndicesFrom(lineText, 1)

\* What one call pushes onto diagnostics and onto controlCharDecorations
collectControlCharDiagnostics(lineNo, lineText) ==
    LET idx == ControlCharIndices(lineText)
    IN  [diagnostics |->
             [k \in 1..Len(idx) |-> ControlCharDiagnostic(lineNo, lineText, idx[k])],
         controlCharDecorations |->
             [k \in 1..Len(idx) |-> ControlCharDecoration(lineNo, lineText, idx[k])]]

-----------------------------------------------------------------------------
(* collectDiagnostics                                                      *)

\* lineText.match(/```|~~~/g): the number of non-overlapping tokens, left to right
RECURSIVE FenceMatchesFrom(_, _)
FenceMatchesFrom(lineText, i) ==
    IF i + 2 > Len(lineText)
    THEN 0
    ELSE IF /\ lineText[i] \in {Backtick, Tilde}
            /\ lineText[i + 1] = lineText[i]
            /\ lineText[i + 2] = lineText[i]
         THEN 1 + FenceMatchesFrom(lineText, i + 3)
         ELSE FenceMatchesFrom(lineText, i + 1)

FenceMatches(lineText) == FenceMatchesFrom(lineText, 1)

\* Mutant: any line that holds a fence token toggles the state.
TogglesFenceAnyToken(lineText) == FenceMatches(lineText) > 0

\* fenceMatches && fenceMatches.length % 2 === 1
TogglesFence(lineText) == FenceMatches(lineText) % 2 = 1

\* Mutant: the fence state of the previous scan is kept.
FenceAtScanStartKept(previous) == previous

\* let inCodeFence = false
FenceAtScanStart(previous) == FALSE

\* One iteration of the for loop over the lines: the fence state after the
\* line and what the iteration pushes.
ScanLine(lineNo, lineText, fence, opts) ==
    LET control == collectControlCharDiagnostics(lineNo, lineText)
    IN  IF TogglesFence(lineText)
        THEN [inCodeFence |-> ~fence,
              diagnostics |-> control.diagnostics,
              controlCharDecorations |-> control.controlCharDecorations]
        ELSE IF fence
             THEN [inCodeFence |-> fence,
                   diagnostics |-> control.diagnostics,
                   controlCharDecorations |-> control.controlCharDecorations]
             ELSE [inCodeFence |-> fence,
                   diagnostics |-> control.diagnostics
                                   \o BoldDiagnostics(lineNo, lineText, opts),
                   controlCharDecorations |-> control.controlCharDecorations]

\* The for loop from line number n (0-based) with the results so far
RECURSIVE ScanFrom(_, _, _, _)
ScanFrom(doc, opts, n, acc) ==
    IF n >= Len(doc)
    THEN acc
    ELSE LET Pushed(r) ==
                 [inCodeFence |-> r.inCodeFence,
                  diagnostics |-> acc.diagnostics \o r.diagnostics,
                  controlCharDecorations |->
                      acc.controlCharDecorations \o r.controlCharDecorations]
         IN  CHOOSE result \in
                 {ScanFrom(doc, opts, n + 1, next) :
                      next \in {Pushed(r) :
                                   r \in {ScanLine(n, doc[n + 1], acc.inCodeFence, opts)}}} : TRUE

\* The whole call, entered with the fence variable holding `fence`
collectDiagnosticsFrom(doc, opts, fence) ==
    ScanFrom(doc, opts, 0,
             [inCodeFence |-> FenceAtScanStart(fence),
              diagnostics |-> << >>,
              controlCharDecorations |-> << >>])

collectDiagnostics(doc, opts) ==
    collectDiagnosticsFrom(doc, opts, FALSE)

-----------------------------------------------------------------------------
(* activate: the documents, the configuration, refresh and debounce.        *)

REFRESH_DEBOUNCE_MS == 150
MAX_PREWARM_FILES == 2000

\* Three open documents: a.md with languageId markdown, b.MDX and t.txt with
\* languageId plaintext.
Docs == {"D", "E", "T"}

\* vscode.workspace.textDocuments, in order
TextDocuments == <<"D", "E", "T">>

LanguageId(d) == IF d = "D" THEN "markdown" ELSE "plaintext"

FileName(d) ==
    CASE d = "D" -> <<97, 46, 109, 100>>
      [] d = "E" -> <<98, 46, 77, 68, 88>>
      [] OTHER -> <<116, 46, 116, 120, 116>>

\* ".md", ".mdx", ".mdc", ".markdown", ".mdoc"
MARKDOWN_EXTENSIONS ==
    {<<46, 109, 100>>, <<46, 109, 100, 120>>, <<46, 109, 100, 99>>,
     <<46, 109, 97, 114, 107, 100, 111, 119, 110>>, <<46, 109, 100, 111, 99>>}

\* String.prototype.toLowerCase on the ASCII letters
ToLowerCase(s) == [k \in 1..Len(s) |-> IF s[k] \in 65..90 THEN s[k] + 32 ELSE s[k]]

EndsWith(s, suffix) ==
    /\ Len(suffix) <= Len(s)
    /\ SubSeq(s, Len(s) - Len(suffix) + 1, Len(s)) = suffix

isMarkdownDocument(d) ==
    \/ LanguageId(d) = "markdown"
    \/ LanguageId(d) = "mdx"
    \/ \E extension \in MARKDOWN_EXTENSIONS : EndsWith(ToLowerCase(FileName(d)), extension)

\* The setting is false or is not set
ConfigValues == {"false", "undefined"}

\* config.get<boolean>("boldIssueUnderline") ?? true
getLintOptions(cfg) ==
    [showBoldUnderline |-> IF cfg = "undefined" THEN TRUE ELSE cfg = "true"]

\* An entry of the diagnostic collection
Unset == [set |-> FALSE, items |-> << >>]

\* Mutant: the new diagnostics are added to the ones the collection holds.
diagnosticsSetAppending(old, items) == [set |-> TRUE, items |-> old.items \o items]

\* diagnostics.set(document.uri, result.diagnostics)
diagnosticsSet(old, items) == [set |-> TRUE, items |-> items]

\* refresh(document) on the session state h, given the documents' contents
refresh(h, d, texts, cfg) ==
    IF ~isMarkdownDocument(d)
    THEN h
    ELSE LET opts == getLintOptions(cfg)
             Publish(result) ==
                 [published |->
                      [h.published EXCEPT ![d] = diagnosticsSet(@, result.diagnostics)],
                  inCodeFence |-> result.inCodeFence,
                  scanned |-> [h.scanned EXCEPT ![d] =
                                  [text |-> texts[d], options |-> opts,
                                   hints |-> result.controlCharDecorations]],
                  dirty |-> [h.dirty EXCEPT ![d] = FALSE]]
         IN  CHOOSE after \in
                 {Publish(result) :
                      result \in {collectDiagnosticsFrom(texts[d], opts, h.inCodeFence)}} : TRUE

\* for (const document of vscode.workspace.textDocuments) refresh(document)
RECURSIVE refreshAll(_, _, _, _)
refreshAll(h, ds, texts, cfg) ==
    IF ds = << >>
    THEN h
    ELSE refreshAll(refresh(h, Head(ds), texts, cfg), Tail(ds), texts, cfg)

NotScanned == [text |-> << >>, options |-> [showBoldUnderline |-> TRUE], hints |-> << >>]

\* The session state when activate has created the diagnostic collection
Created ==
    [published |-> [d \in Docs |-> Unset],
     inCodeFence |-> FALSE,
     scanned |-> [d \in Docs |-> NotScanned],
     dirty |-> [d \in Docs |-> FALSE]]

Session ==
    [published |-> published, inCodeFence |-> inCodeFence,
     scanned |-> scanned, dirty |-> dirty]

SessionBecomes(h) ==
    /\ published' = h.published
    /\ inCodeFence' = h.inCodeFence
    /\ scanned' = h.scanned
    /\ dirty' = h.dirty

\* Mutant: the pending timer is left in place.
TimersNotCleared(ts, handle) == ts

\* if (timeout) clearTimeout(timeout)
TimersAfterClear(ts, handle) ==
    IF handle # 0 THEN {t \in ts : t.id # handle} ELSE ts

MaxTimers == 2

FreeTimerIds(ts) == {i \in 1..MaxTimers : \A t \in ts : t.id # i}

\* The handle setTimeout returns: the least one no pending timer has
NewTimerId(ts) == CHOOSE i \in FreeTimerIds(ts) : \A j \in FreeTimerIds(ts) : i <= j

TickMs == 75
BurstCap == 2

NoBurst == [docs |-> {}, edits |-> 0, runs |-> 0, ranAfter |-> REFRESH_DEBOUNCE_MS]

-----------------------------------------------------------------------------
(* SpecDetect: detectIssue applied to every triple of a bounded input set.  *)

MaxContentLen == 2

\* Code units on both sides of every boundary of the CJK class, plus symbols,
\* letters and markers.
AfterChars ==
    {SpaceChar, Bang, LetterA, Star, Underscore, Tilde, 41, 65295, 12290,
     44031, 44032, 55203, 55204, 19967, 19968, 40879, 40880,
     12352, 12353, 12447, 12448, 12543, 12544}

ContentChars == {LetterA, Bang, Hangul, 65295, SpaceChar}

SeqsUpTo(S, n) == UNION {[1..k -> S] : k \in 0..n}

Delimiters == {Str2(Star), Str2(Underscore)}

DetectInputs ==
    [delimiter : Delimiters,
     content : SeqsUpTo(ContentChars, MaxContentLen),
     after : {<< >>} \cup {<<c>> : c \in AfterChars}]

Pending == [code |-> "pending"]

NoArgs == [delimiter |-> << >>, content |-> << >>, after |-> << >>]

DetectIdle ==
    /\ args = NoArgs
    /\ issue = Pending

\* No call of maskInlineCode is in progress
NoMask ==
    [lineText |-> << >>, index |-> 0, inInlineCode |-> FALSE, tickLength |-> 0,
     result |-> << >>]

ScanIdle ==
    /\ pc = "idle"
    /\ mask = NoMask
    /\ document = << >>
    /\ options = [showBoldUnderline |-> TRUE]
    /\ lineNumber = 0
    /\ inCodeFence = FALSE
    /\ diagnostics = << >>
    /\ controlCharDecorations = << >>

HostIdle ==
    /\ docText = << >>
    /\ config = "undefined"
    /\ published = << >>
    /\ timeout = 0
    /\ timers = {}
    /\ disposed = FALSE
    /\ scanned = << >>
    /\ dirty = << >>
    /\ quiet = REFRESH_DEBOUNCE_MS
    /\ burst = NoBurst
    /\ prewarm = [phase |-> "none", tasks |-> << >>]

InitDetect ==
    /\ args \in DetectInputs
    /\ issue = Pending
    /\ ScanIdle
    /\ HostIdle

DetectIssue ==
    /\ issue = Pending
    /\ issue' = detectIssue(args.delimiter, args.content, args.after)
    /\ UNCHANGED <<args, scanVars, hostVars>>

NextDetect == DetectIssue

SpecDetect == InitDetect /\ [][NextDetect]_vars

-----------------------------------------------------------------------------
(* Spec: one call of collectDiagnostics, one loop iteration per step, on   *)
(* every document of a bounded set.                                        *)

MaxChunks == 3
MaxLines == 3

\* What lines are built from: single markers and characters, and whole bold
\* runs as the sample file has them.
BoldRun(d, c) == <<d, d, c, d, d>>

Chunks ==
    {<<Backslash>>, <<Backtick>>, Str3(Backtick), Str3(Tilde), <<LetterA>>, <<Bang>>,
     <<Hangul>>, <<SpaceChar>>, <<Bel>>, <<Tab>>, Str2(Star),
     BoldRun(Star, Bang),
     BoldRun(Star, Bang) \o <<Hangul>>,
     BoldRun(Underscore, LetterA) \o <<Hangul>>,
     BoldRun(Star, LetterA) \o <<Hangul>>}

RECURSIVE Flatten(_)
Flatten(ss) == IF ss = << >> THEN << >> ELSE Head(ss) \o Flatten(Tail(ss))

Lines == {Flatten(cs) : cs \in SeqsUpTo(Chunks, MaxChunks)}

\* Lines of the documents of more than one line
PoolLines ==
    {<< >>,
     Str3(Backtick),
     Str3(Tilde),
     Str3(Tilde) \o BoldRun(Star, Bang) \o <<Hangul>> \o Str3(Tilde),
     BoldRun(Star, Bang) \o <<Hangul>>,
     BoldRun(Underscore, LetterA) \o <<Hangul, Bel>>,
     <<Bel, Tab, 31>>}

Documents ==
    {<<l>> : l \in Lines} \cup {<< >>}
    \cup UNION {[1..n -> PoolLines] : n \in 2..MaxLines}

LintOptionsSet == [showBoldUnderline : BOOLEAN]

Init ==
    /\ DetectIdle
    /\ HostIdle
    /\ pc = "loop"
    /\ mask = NoMask
    /\ document \in Documents
    /\ options \in LintOptionsSet
    /\ lineNumber = 0
    /\ inCodeFence = FALSE
    /\ diagnostics = << >>
    /\ controlCharDecorations = << >>

\* One iteration of for (lineNumber = 0; lineNumber < document.lineCount; ...)
ScanStep ==
    /\ pc = "loop"
    /\ lineNumber < Len(document)
    /\ LET r == ScanLine(lineNumber, document[lineNumber + 1], inCodeFence, options)
       IN  /\ inCodeFence' = r.inCodeFence
           /\ diagnostics' = diagnostics \o r.diagnostics
           /\ controlCharDecorations' = controlCharDecorations \o r.controlCharDecorations
    /\ lineNumber' = lineNumber + 1
    /\ UNCHANGED <<pc, document, options, mask, detectVars, hostVars>>

\* return { diagnostics, controlCharDecorations }
ScanReturn ==
    /\ pc = "loop"
    /\ lineNumber >= Len(document)
    /\ pc' = "done"
    /\ UNCHANGED <<document, options, lineNumber, inCodeFence, diagnostics,
                   controlCharDecorations, mask, detectVars, hostVars>>

Next == ScanStep \/ ScanReturn

Spec == Init /\ [][Next]_vars

-----------------------------------------------------------------------------
(* SpecMask: one call of maskInlineCode, one iteration of its outer while  *)
(* loop per step, on every line of a bounded set.                          *)
(* SpecTotal: one call of collectDiagnostics in which the call of          *)
(* maskInlineCode is taken one iteration per step as well.  pc is "mask"   *)
(* in a call of maskInlineCode of its own, "lineMask" in the call that     *)
(* collectDiagnostics makes for the line it is at.                         *)

MaxMaskLen == 8

MaskChars == {Backtick, LetterA}

MaskLines == SeqsUpTo(MaskChars, MaxMaskLen)

\* let result = "", index = 0, inInlineCode = false, tickLength = 0
MaskEntered(line) ==
    [lineText |-> line, index |-> 0, inInlineCode |-> FALSE, tickLength |-> 0,
     result |-> << >>]

InitMask ==
    /\ DetectIdle
    /\ HostIdle
    /\ pc = "mask"
    /\ mask \in {MaskEntered(line) : line \in MaskLines}
    /\ document = << >>
    /\ options = [showBoldUnderline |-> TRUE]
    /\ lineNumber = 0
    /\ inCodeFence = FALSE
    /\ diagnostics = << >>
    /\ controlCharDecorations = << >>

InMask == pc \in {"mask", "lineMask"}

\* An iteration that finds a backtick at index: the run is measured, the span
\* state changes, the run is written as spaces and index goes to the run's end
MaskRun ==
    /\ InMask
    /\ mask.index < Len(mask.lineText)
    /\ mask.lineText[mask.index + 1] = Backtick
    /\ LET runEnd == RunEnd(mask.lineText, mask.index + 1) - 1
           runLength == runEnd - mask.index
           closes == mask.inInlineCode /\ ClosesSpan(runLength, mask.tickLength)
       IN  mask' = [mask EXCEPT
                        !.inInlineCode = IF ~mask.inInlineCode THEN TRUE ELSE ~closes,
                        !.tickLength = IF ~mask.inInlineCode THEN runLength
                                       ELSE IF closes THEN 0 ELSE @,
                        !.result = @ \o Repeat(SpaceChar, runLength),
                        !.index = runEnd]
    /\ UNCHANGED <<pc, document, options, lineNumber, inCodeFence, diagnostics,
                   controlCharDecorations, detectVars, hostVars>>

\* An iteration that finds another character at index
MaskChar ==
    /\ InMask
    /\ mask.index < Len(mask.lineText)
    /\ mask.lineText[mask.index + 1] # Backtick
    /\ mask' = [mask EXCEPT
                    !.result = @ \o <<IF mask.inInlineCode
                                      THEN SpaceChar
                                      ELSE mask.lineText[mask.index + 1]>>,
                    !.index = @ + 1]
    /\ UNCHANGED <<pc, document, options, lineNumber, inCodeFence, diagnostics,
                   controlCharDecorations, detectVars, hostVars>>

\* return result
MaskReturn ==
    /\ pc = "mask"
    /\ mask.index >= Len(mask.lineText)
    /\ pc' = "returned"
    /\ UNCHANGED <<mask, document, options, lineNumber, inCodeFence, diagnostics,
                   controlCharDecorations, detectVars, hostVars>>

NextMask == MaskRun \/ MaskChar \/ MaskReturn

SpecMask == InitMask /\ [][NextMask]_vars

MaxTotalLines == 2

\* An empty line, a fence left open, an inline-code span left open before a
\* flaggable bold run, a flaggable bold run after a closed span, a line of
\* control characters only, and a line of two fence tokens.
TotalLines ==
    {<< >>,
     Str3(Backtick),
     <<Backtick>> \o BoldRun(Star, Bang) \o <<Hangul>>,
     <<Backtick, LetterA, Backtick>> \o BoldRun(Star, Bang) \o <<Hangul>>,
     <<Bel, 31>>,
     Str3(Tilde) \o <<LetterA>> \o Str3(Tilde)}

\* Every document of at most MaxTotalLines of these lines (the empty document
\* among them), and every line of MaskLines as a document of one line
TotalDocuments ==
    SeqsUpTo(TotalLines, MaxTotalLines) \cup {<<line>> : line \in MaskLines}

InitTotal ==
    /\ DetectIdle
    /\ HostIdle
    /\ pc = "loop"
    /\ mask = NoMask
    /\ document \in TotalDocuments
    /\ options \in LintOptionsSet
    /\ lineNumber = 0
    /\ inCodeFence = FALSE
    /\ diagnostics = << >>
    /\ controlCharDecorations = << >>

\* An iteration of the for loop up to the call of maskInlineCode: the control
\* characters, the fence test and its two continue statements
LineStart ==
    /\ pc = "loop"
    /\ lineNumber < Len(document)
    /\ \E lineText \in {document[lineNumber + 1]} :
       \E control \in {collectControlCharDiagnostics(lineNumber, lineText)} :
           /\ diagnostics' = diagnostics \o control.diagnostics
           /\ controlCharDecorations' =
                  controlCharDecorations \o control.controlCharDecorations
           /\ IF TogglesFence(lineText)
              THEN /\ inCodeFence' = ~inCodeFence
                   /\ lineNumber' = lineNumber + 1
                   /\ UNCHANGED <<pc, mask>>
              ELSE IF inCodeFence
                   THEN /\ lineNumber' = lineNumber + 1
                        /\ UNCHANGED <<pc, mask, inCodeFence>>
                   ELSE /\ pc' = "lineMask"
                        /\ mask' = MaskEntered(lineText)
                        /\ UNCHANGED <<lineNumber, inCodeFence>>
    /\ UNCHANGED <<document, options, detectVars, hostVars>>

\* maskInlineCode has returned maskedLine: the loop over its matches, and the
\* end of the iteration
LineBold ==
    /\ pc = "lineMask"
    /\ mask.index >= Len(mask.lineText)
    /\ diagnostics' =
           diagnostics \o BoldDiagnosticsFrom(lineNumber, mask.lineText, options,
                                              BoldMatches(mask.result), 1)
    /\ lineNumber' = lineNumber + 1
    /\ pc' = "loop"
    /\ mask' = NoMask
    /\ UNCHANGED <<document, options, inCodeFence, controlCharDecorations,
                   detectVars, hostVars>>

NextTotal == LineStart \/ MaskRun \/ MaskChar \/ LineBold \/ ScanReturn

\* The call is synchronous: nothing suspends it, so it goes on while it can
SpecTotal == InitTotal /\ [][NextTotal]_vars /\ WF_vars(NextTotal)

-----------------------------------------------------------------------------
(* C1: detectIssue returns UNDERSCORE_CJK exactly when the delimiter is __ *)
(* and the following character exists and is CJK; TRAILING_SYMBOL exactly  *)
(* when the delimiter is **, the following character exists and is CJK and *)
(* the content's last character is a trailing symbol; and no issue in      *)
(* every other case.                                                       *)

AfterIsCjk == Len(args.after) = 1 /\ IsCjk(args.after[1])

ContentEndsWithSymbol ==
    Len(args.content) > 0 /\ args.content[Len(args.content)] \in TrailingSymbols

C1_DetectIssueDecision ==
    issue # Pending =>
        /\ (issue.code = "MBL002") <=> (args.delimiter = <<95, 95>> /\ AfterIsCjk)
        /\ (issue.code = "MBL001") <=>
               (args.delimiter = <<42, 42>> /\ AfterIsCjk /\ ContentEndsWithSymbol)
        /\ (issue = Null) <=>
               ~ \/ (args.delimiter = <<95, 95>> /\ AfterIsCjk)
                 \/ (args.delimiter = <<42, 42>> /\ AfterIsCjk /\ ContentEndsWithSymbol)
        /\ issue.code \in {"MBL001", "MBL002", "null"}

\* __ before CJK with content ending in a symbol: both rules apply, MBL002 wins
C1_Witness ==
    /\ issue # Pending
    /\ args.delimiter = <<95, 95>>
    /\ AfterIsCjk
    /\ ContentEndsWithSymbol
    /\ issue.code = "MBL002"

-----------------------------------------------------------------------------
(* SpecHost: the session after activate in a window with no workspace       *)
(* folder (prewarmWorkspaceDiagnostics returned at once), and the events    *)
(* the extension subscribes to.  Time passes in steps of TickMs.            *)

TextA == <<BoldRun(Star, Bang) \o <<Hangul>>>>

TextB == <<Str3(Backtick), BoldRun(Star, Bang) \o <<Hangul, Bel>>>>

Texts(d) == IF d = "T" THEN {TextA} ELSE {TextA, TextB}

Contents == {t \in [Docs -> {TextA, TextB}] : \A d \in Docs : t[d] \in Texts(d)}

ScanQuiet ==
    /\ pc = "idle"
    /\ mask = NoMask
    /\ document = << >>
    /\ options = [showBoldUnderline |-> TRUE]
    /\ lineNumber = 0
    /\ diagnostics = << >>
    /\ controlCharDecorations = << >>

scanLocals ==
    <<pc, document, options, lineNumber, diagnostics, controlCharDecorations, mask>>

\* activate has run: the open documents are refreshed, nothing is pending
Activated ==
    /\ DetectIdle
    /\ ScanQuiet
    /\ docText \in Contents
    /\ config \in ConfigValues
    /\ \E h \in {refreshAll(Created, TextDocuments, docText, config)} :
           /\ published = h.published
           /\ inCodeFence = h.inCodeFence
           /\ scanned = h.scanned
           /\ dirty = h.dirty
    /\ timeout = 0
    /\ timers = {}
    /\ disposed = FALSE
    /\ quiet = REFRESH_DEBOUNCE_MS
    /\ burst = NoBurst

InitHost ==
    /\ Activated
    /\ prewarm = [phase |-> "fulfilled", tasks |-> << >>]

\* Mutant: the open event goes through the debouncer, as a change event does.
OpenTextDocumentDebounced(d) ==
    /\ ~disposed
    /\ LET cleared == TimersAfterClear(timers, timeout)
       IN  /\ FreeTimerIds(cleared) # {}
           /\ timers' = cleared \cup {[id |-> NewTimerId(cleared), doc |-> d, elapsed |-> 0,
                                       deleted |-> FALSE]}
           /\ timeout' = NewTimerId(cleared)
    /\ dirty' = [dirty EXCEPT ![d] = isMarkdownDocument(d)]
    /\ quiet' = 0
    /\ UNCHANGED <<docText, config, published, inCodeFence, scanned, disposed, burst,
                   prewarm, detectVars, scanLocals>>

\* onDidOpenTextDocument(refresh)
OpenTextDocument(d) ==
    /\ ~disposed
    /\ UNCHANGED <<docText, config, timeout, timers, disposed, quiet, burst, prewarm,
                   detectVars, scanLocals>>
    /\ \E h \in {refresh(Session, d, docText, config)} : SessionBecomes(h)

\* onDidChangeTextDocument((event) => refreshDebounced(event.document)), after
\* the host has changed the document's content to text
ChangeTextDocument(d, text) ==
    /\ ~disposed
    /\ docText' = [docText EXCEPT ![d] = text]
    /\ LET cleared == TimersAfterClear(timers, timeout)
       IN  /\ FreeTimerIds(cleared) # {}
           /\ timers' = cleared \cup {[id |-> NewTimerId(cleared), doc |-> d, elapsed |-> 0,
                                       deleted |-> FALSE]}
           /\ timeout' = NewTimerId(cleared)
    /\ dirty' = [dirty EXCEPT ![d] = isMarkdownDocument(d)]
    /\ quiet' = 0
    /\ burst' = IF timers = {}
                THEN [NoBurst EXCEPT !.docs = {d}, !.edits = 1]
                ELSE [burst EXCEPT !.docs = @ \cup {d}, !.edits = Min(@ + 1, BurstCap)]
    /\ UNCHANGED <<config, published, inCodeFence, scanned, disposed, prewarm,
                   detectVars, scanLocals>>

\* The callback of setTimeout(() => fn(...args), waitMs), once waitMs have passed
TimerFires(t) ==
    /\ t \in timers
    /\ t.elapsed >= REFRESH_DEBOUNCE_MS
    /\ timers' = timers \ {t}
    /\ \E h \in {refresh(Session, t.doc, docText, config)} : SessionBecomes(h)
    /\ burst' = [burst EXCEPT !.runs = Min(@ + 1, BurstCap), !.ranAfter = quiet]
    /\ UNCHANGED <<docText, config, timeout, disposed, quiet, prewarm,
                   detectVars, scanLocals>>

\* onDidChangeActiveTextEditor with an editor that has a document
ChangeActiveTextEditor(d) ==
    /\ ~disposed
    /\ UNCHANGED <<docText, config, timeout, timers, disposed, quiet, burst, prewarm,
                   detectVars, scanLocals>>
    /\ \E h \in {refresh(Session, d, docText, config)} : SessionBecomes(h)

\* onDidChangeConfiguration with event.affectsConfiguration("markdownBoldLint")
ChangeConfiguration(cfg) ==
    /\ ~disposed
    /\ config' = cfg
    /\ \E h \in {refreshAll(Session, TextDocuments, docText, cfg)} : SessionBecomes(h)
    /\ UNCHANGED <<docText, timeout, timers, disposed, quiet, burst, prewarm,
                   detectVars, scanLocals>>

\* onDidDeleteFiles: diagnostics.delete(uri) for each file of the event
DeleteFiles(files) ==
    /\ ~disposed
    /\ published' = [d \in Docs |-> IF d \in files THEN Unset ELSE published[d]]
    /\ timers' = {[t EXCEPT !.deleted = @ \/ t.doc \in files] : t \in timers}
    /\ UNCHANGED <<docText, config, inCodeFence, scanned, dirty, timeout,
                   disposed, quiet, burst, prewarm, detectVars, scanLocals>>

\* context.subscriptions are disposed: the collection is cleared, the listeners
\* are removed, refreshDebounced.cancel() runs
Dispose ==
    /\ ~disposed
    /\ disposed' = TRUE
    /\ published' = [d \in Docs |-> Unset]
    /\ timers' = TimersAfterClear(timers, timeout)
    /\ timeout' = 0
    /\ dirty' = [d \in Docs |-> FALSE]
    /\ burst' = NoBurst
    /\ UNCHANGED <<docText, config, inCodeFence, scanned, quiet, prewarm,
                   detectVars, scanLocals>>

\* TickMs pass
Tick ==
    /\ \/ quiet < REFRESH_DEBOUNCE_MS
       \/ \E t \in timers : t.elapsed < REFRESH_DEBOUNCE_MS
    /\ quiet' = Min(quiet + TickMs, REFRESH_DEBOUNCE_MS)
    /\ timers' = {[t EXCEPT !.elapsed = Min(@ + TickMs, REFRESH_DEBOUNCE_MS)] : t \in timers}
    /\ UNCHANGED <<docText, config, published, inCodeFence, scanned, dirty, timeout,
                   disposed, burst, prewarm, detectVars, scanLocals>>

NextHost ==
    \/ \E d \in Docs : OpenTextDocument(d)
    \/ \E d \in Docs : \E text \in Texts(d) : ChangeTextDocument(d, text)
    \/ \E t \in timers : TimerFires(t)
    \/ \E d \in Docs : ChangeActiveTextEditor(d)
    \/ \E cfg \in ConfigValues : ChangeConfiguration(cfg)
    \/ \E d \in Docs : DeleteFiles({d})
    \/ Dispose
    \/ Tick

SpecHost == InitHost /\ [][NextHost]_vars

-----------------------------------------------------------------------------
(* SpecPrewarm: activate in a window with no open document, then           *)
(* prewarmWorkspaceDiagnostics(refresh) up to the settling of its promise. *)
(* A task is one callback of uris.map: "opening" while openTextDocument is *)
(* awaited, "refreshed" when refresh(document) has run, "failed" when      *)
(* openTextDocument rejected.                                              *)

\* The files of the workspace the Markdown globs match
WorkspaceFiles == {d \in Docs : isMarkdownDocument(d)}

InitPrewarm ==
    /\ DetectIdle
    /\ ScanQuiet
    /\ docText \in Contents
    /\ config \in ConfigValues
    /\ published = Created.published
    /\ inCodeFence = Created.inCodeFence
    /\ scanned = Created.scanned
    /\ dirty = Created.dirty
    /\ timeout = 0
    /\ timers = {}
    /\ disposed = FALSE
    /\ quiet = REFRESH_DEBOUNCE_MS
    /\ burst = NoBurst
    /\ prewarm = [phase |-> "start", tasks |-> << >>]

debounceVars == <<timeout, timers, disposed, quiet, burst>>

\* if (!vscode.workspace.workspaceFolders?.length) return
PrewarmReturn ==
    /\ prewarm.phase = "start"
    /\ prewarm' = [prewarm EXCEPT !.phase = "fulfilled"]
    /\ UNCHANGED <<docText, config, published, inCodeFence, scanned, dirty, debounceVars,
                   detectVars, scanLocals>>

\* findFiles(include, exclude, MAX_PREWARM_FILES) resolved with uris, and
\* uris.map started one task per uri
PrewarmFindFiles(uris) ==
    /\ prewarm.phase = "start"
    /\ Cardinality(uris) <= MAX_PREWARM_FILES
    /\ prewarm' = [phase |-> "awaitAll", tasks |-> [u \in uris |-> "opening"]]
    /\ UNCHANGED <<docText, config, published, inCodeFence, scanned, dirty, debounceVars,
                   detectVars, scanLocals>>

\* openTextDocument(uri) resolved: refresh(document)
PrewarmOpened(u) ==
    /\ u \in DOMAIN prewarm.tasks
    /\ prewarm.tasks[u] = "opening"
    /\ \E h \in {refresh(Session, u, docText, config)} : SessionBecomes(h)
    /\ prewarm' = [prewarm EXCEPT !.tasks[u] = "refreshed"]
    /\ UNCHANGED <<docText, config, debounceVars, detectVars, scanLocals>>

\* openTextDocument(uri) rejected: the task's promise rejects
PrewarmOpenFailed(u) ==
    /\ u \in DOMAIN prewarm.tasks
    /\ prewarm.tasks[u] = "opening"
    /\ prewarm' = [prewarm EXCEPT !.tasks[u] = "failed"]
    /\ UNCHANGED <<docText, config, published, inCodeFence, scanned, dirty, debounceVars,
                   detectVars, scanLocals>>

\* await Promise.all(...) throws: a task has rejected, nothing catches it
PrewarmRejects ==
    /\ prewarm.phase = "awaitAll"
    /\ \E u \in DOMAIN prewarm.tasks : prewarm.tasks[u] = "failed"
    /\ prewarm' = [prewarm EXCEPT !.phase = "rejected"]
    /\ UNCHANGED <<docText, config, published, inCodeFence, scanned, dirty, debounceVars,
                   detectVars, scanLocals>>

\* await Promise.all(...) returns: every task has fulfilled
PrewarmFulfils ==
    /\ prewarm.phase = "awaitAll"
    /\ \A u \in DOMAIN prewarm.tasks : prewarm.tasks[u] = "refreshed"
    /\ prewarm' = [prewarm EXCEPT !.phase = "fulfilled"]
    /\ UNCHANGED <<docText, config, published, inCodeFence, scanned, dirty, debounceVars,
                   detectVars, scanLocals>>

NextPrewarm ==
    \/ PrewarmReturn
    \/ \E uris \in SUBSET WorkspaceFiles : PrewarmFindFiles(uris)
    \/ \E u \in WorkspaceFiles : PrewarmOpened(u)
    \/ \E u \in WorkspaceFiles : PrewarmOpenFailed(u)
    \/ PrewarmRejects
    \/ PrewarmFulfils

SpecPrewarm == InitPrewarm /\ [][NextPrewarm]_vars

-----------------------------------------------------------------------------
(* Vocabulary of the claims about one scan (Spec).  Line numbers and       *)
(* columns are 0-based, as in the diagnostics.                             *)

BoldCodes == {"MBL001", "MBL002"}

LineAt(n) == document[n + 1]

\* The line holds an odd number of fence tokens
OddFenceLine(n) == FenceMatches(LineAt(n)) % 2 = 1

\* Parity of the number of odd-token lines among lines 0 .. n-1
FenceParityBefore(n) == Cardinality({k \in 0..(n - 1) : OddFenceLine(k)}) % 2 = 1

\* The diagnostics reported so far on line n, in order
DiagnosticsOn(n) == SelectSeq(diagnostics, LAMBDA d : d.range.start.line = n)

BoldDiagnosticsOn(n) ==
    SelectSeq(diagnostics, LAMBDA d : d.range.start.line = n /\ d.code \in BoldCodes)

ControlDiagnosticsOn(n) ==
    SelectSeq(diagnostics, LAMBDA d : d.range.start.line = n /\ d.code = "MBL005")

\* The lines the loop has been through
ScannedLines == 0..(lineNumber - 1)

-----------------------------------------------------------------------------
(* C2: the fence state starts false and after each line is the parity of   *)
(* the number of lines so far with an odd number of fence tokens; a line   *)
(* is scanned for bold issues iff its token count is even and the state    *)
(* before it is not-in-fence, so no bold issue is reported on a line       *)
(* inside a fence or on a fence-boundary line, and a line with two tokens  *)
(* is excluded only when the scan was inside a fence at its start.         *)

C2_FenceState ==
    /\ inCodeFence = FenceParityBefore(lineNumber)
    /\ \A n \in ScannedLines :
           BoldDiagnosticsOn(n) =
               IF ~OddFenceLine(n) /\ ~FenceParityBefore(n)
               THEN BoldDiagnostics(n, LineAt(n), options)
               ELSE << >>
    /\ \A j \in DOMAIN diagnostics :
           diagnostics[j].code \in BoldCodes =>
               /\ ~OddFenceLine(diagnostics[j].range.start.line)
               /\ ~FenceParityBefore(diagnostics[j].range.start.line)

\* A finished scan with a flaggable line left alone inside a fence, and a line
\* of two fence tokens outside every fence that is flagged.
C2_Witness ==
    /\ pc = "done"
    /\ \E n \in ScannedLines :
           /\ FenceParityBefore(n)
           /\ ~OddFenceLine(n)
           /\ BoldDiagnostics(n, LineAt(n), options) # << >>
           /\ BoldDiagnosticsOn(n) = << >>
    /\ \E n \in ScannedLines :
           /\ FenceMatches(LineAt(n)) = 2
           /\ ~FenceParityBefore(n)
           /\ BoldDiagnosticsOn(n) # << >>

-----------------------------------------------------------------------------
(* C3: exactly one CONTROL_CHAR issue for each occurrence of a character   *)
(* in U+0000-U+0008, U+000B, U+000C, U+000E-U+001F on any line, inside a   *)
(* fence or an inline-code span or not, with range (line, col) to          *)
(* (line, col+1); tab, line feed and carriage return never produce one.    *)

DisallowedControls == (0..8) \cup {11, 12} \cup (14..31)

ControlIssuesAt(n, col) ==
    {j \in DOMAIN diagnostics :
        /\ diagnostics[j].code = "MBL005"
        /\ diagnostics[j].range.start = [line |-> n, character |-> col]}

C3_ControlChars ==
    /\ \A n \in ScannedLines : \A col \in 0..(Len(LineAt(n)) - 1) :
           Cardinality(ControlIssuesAt(n, col)) =
               IF LineAt(n)[col + 1] \in DisallowedControls THEN 1 ELSE 0
    /\ \A j \in DOMAIN diagnostics :
           diagnostics[j].code = "MBL005" =>
               /\ diagnostics[j].range.start.line \in ScannedLines
               /\ diagnostics[j].range.start.character
                      \in 0..(Len(LineAt(diagnostics[j].range.start.line)) - 1)
               /\ diagnostics[j].range.end =
                      [line |-> diagnostics[j].range.start.line,
                       character |-> diagnostics[j].range.start.character + 1]
    /\ \A c \in {Tab, LineFeed, CarriageReturn} : ~IsControlChar(c)

\* A finished scan with a line inside a fence that holds a tab and two
\* disallowed controls, both reported.
C3_Witness ==
    /\ pc = "done"
    /\ \E n \in ScannedLines :
           /\ FenceParityBefore(n)
           /\ \E i \in DOMAIN LineAt(n) : LineAt(n)[i] = Tab
           /\ Len(ControlDiagnosticsOn(n)) = 2

-----------------------------------------------------------------------------
(* C7: for the same content, the scans with boldIssueUnderline false and   *)
(* true give diagnostic sequences of the same length with the same codes,  *)
(* messages, lines and start columns in the same order; with the option    *)
(* false every bold range has its end column equal to its start column;    *)
(* CONTROL_CHAR ranges and render hints are the same in both.              *)

OtherOptions == [showBoldUnderline |-> ~options.showBoldUnderline]

UnderlineOff(a, b) == IF options.showBoldUnderline THEN b ELSE a

C7_UnderlineOption ==
    pc = "done" =>
        LET other == collectDiagnostics(document, OtherOptions)
        IN  /\ Len(other.diagnostics) = Len(diagnostics)
            /\ other.controlCharDecorations = controlCharDecorations
            /\ \A j \in DOMAIN diagnostics :
                   LET d == diagnostics[j]
                       e == other.diagnostics[j]
                       off == UnderlineOff(d, e)
                   IN  /\ d.code = e.code
                       /\ d.message = e.message
                       /\ d.severity = e.severity
                       /\ d.range.start = e.range.start
                       /\ d.code = "MBL005" => d.range = e.range
                       /\ d.code \in BoldCodes => off.range.end = off.range.start

\* A finished scan with the option off that reports a bold and a control issue
C7_Witness ==
    /\ pc = "done"
    /\ ~options.showBoldUnderline
    /\ \E j \in DOMAIN diagnostics : diagnostics[j].code \in BoldCodes
    /\ \E j \in DOMAIN diagnostics : diagnostics[j].code = "MBL005"
    /\ collectDiagnostics(document, OtherOptions).diagnostics # diagnostics

-----------------------------------------------------------------------------
(* C10: no bold issue is reported for a match whose start column is        *)
(* immediately preceded by a backslash in the original line; later matches *)
(* on the line that are not preceded by a backslash are still classified.  *)

PrecededByBackslash(n, col) == col > 0 /\ LineAt(n)[col] = Backslash

\* The line is one the bold scan runs on
BoldScanned(n) == ~OddFenceLine(n) /\ ~FenceParityBefore(n)

MatchesOn(n) == BoldMatches(maskInlineCode(LineAt(n)))

IssueOfMatch(n, m) ==
    detectIssue(m.delimiter,
                Slice(LineAt(n), m.index + 2, m.index + m.length - 2),
                CharAt(LineAt(n), m.index + m.length))

C10_EscapedMatch ==
    /\ \A j \in DOMAIN diagnostics :
           diagnostics[j].code \in BoldCodes =>
               ~PrecededByBackslash(diagnostics[j].range.start.line,
                                    diagnostics[j].range.start.character)
    /\ \A n \in ScannedLines :
           BoldScanned(n) =>
               \A k \in DOMAIN MatchesOn(n) :
                   LET m == MatchesOn(n)[k]
                   IN  (~PrecededByBackslash(n, m.index) /\ IssueOfMatch(n, m) # Null)
                       => \E j \in DOMAIN diagnostics :
                              /\ diagnostics[j].range.start =
                                     [line |-> n, character |-> m.index]
                              /\ diagnostics[j].code = IssueOfMatch(n, m).code

\* A line whose first match is escaped and would otherwise be flagged, and
\* whose later match is flagged.
C10_Witness ==
    /\ pc = "done"
    /\ \E n \in ScannedLines :
           /\ BoldScanned(n)
           /\ Len(MatchesOn(n)) = 2
           /\ PrecededByBackslash(n, MatchesOn(n)[1].index)
           /\ IssueOfMatch(n, MatchesOn(n)[1]) # Null
           /\ ~PrecededByBackslash(n, MatchesOn(n)[2].index)
           /\ Len(BoldDiagnosticsOn(n)) = 1
           /\ BoldDiagnosticsOn(n)[1].range.start.character = MatchesOn(n)[2].index

-----------------------------------------------------------------------------
(* C9: whatever events have happened, the diagnostics published for a      *)
(* document belong to an eligible document and are exactly the complete    *)
(* result of one scan of one content of that document under one set of     *)
(* options (the last scan's): never a part of a result, never two results  *)
(* merged.                                                                 *)

C9_PublishedIsOneScan ==
    \A d \in Docs :
        published[d].set =>
            /\ isMarkdownDocument(d)
            /\ published[d].items =
                   collectDiagnostics(scanned[d].text, scanned[d].options).diagnostics

\* A debounced scan has replaced the one diagnostic of D's earlier content by
\* the one diagnostic of its new content.
C9_Witness ==
    /\ burst.docs = {"D"}
    /\ burst.runs = 1
    /\ scanned["D"].text = TextB
    /\ published["D"].set
    /\ Len(published["D"].items) = 1
    /\ published["D"].items[1].code = "MBL005"

-----------------------------------------------------------------------------
(* C8: a scan's diagnostics and render hints depend on the content and     *)
(* the options alone: whenever a step leaves a document scanned with the   *)
(* content and options another (or the same) document was scanned with     *)
(* before the step, the hints are the same sequence and the published      *)
(* diagnostics are the same sequence, whatever was scanned in between.     *)

SameInput(a, b) == a.text = b.text /\ a.options = b.options

C8_ScanDeterministic ==
    [][\A d, e \in {x \in Docs : isMarkdownDocument(x)} :
           SameInput(scanned'[d], scanned[e]) =>
               /\ scanned'[d].hints = scanned[e].hints
               /\ (published'[d].set /\ published[e].set) =>
                      published'[d].items = published[e].items]_vars

\* D and E were both scanned with the content that ends inside a fence, E by
\* a debounced scan after D's, and both publish the same diagnostic.
C8_Witness ==
    /\ SameInput(scanned["D"], scanned["E"])
    /\ scanned["E"].text = TextB
    /\ burst.docs = {"E"}
    /\ burst.runs = 1
    /\ inCodeFence
    /\ published["D"].set
    /\ published["E"].set
    /\ published["D"].items = published["E"].items
    /\ published["D"].items # << >>
    /\ scanned["D"].hints # << >>

-----------------------------------------------------------------------------
(* C4: while the change events since the debouncer was last idle are all   *)
(* for one document, at most one debounced scan has run; before it runs    *)
(* exactly one timer is pending, the last event's; when it has run nothing *)
(* is pending, it ran a full wait after the last event, and it scanned the *)
(* content the last event left, which is what the published diagnostics    *)
(* are computed from.                                                      *)

C4_DebouncedBurst ==
    \A d \in Docs :
        burst.docs = {d} =>
            /\ burst.runs <= 1
            /\ (burst.runs = 0) => \E t \in timers : timers = {t} /\ t.doc = d
            /\ (burst.runs = 1) =>
                   /\ timers = {}
                   /\ burst.ranAfter >= REFRESH_DEBOUNCE_MS
                   /\ isMarkdownDocument(d) =>
                          /\ ~dirty[d]
                          /\ scanned[d].text = docText[d]
                          /\ published[d].set =>
                                 published[d].items =
                                     collectDiagnostics(docText[d],
                                                        scanned[d].options).diagnostics

\* Two or more change events for D, then the one scan
C4_Witness ==
    /\ burst.docs = {"D"}
    /\ burst.edits >= 2
    /\ burst.runs = 1
    /\ published["D"].set
    /\ scanned["D"].text = docText["D"]

-----------------------------------------------------------------------------
(* C5: a document that has changed since its last scan has a debounced     *)
(* scan pending, until the session is disposed: a change event for another *)
(* document does not take the pending scan away.                           *)

C5_PendingScanKept ==
    \A d \in Docs : dirty[d] => \E t \in timers : t.doc = d

-----------------------------------------------------------------------------
(* C6: the promise of prewarmWorkspaceDiagnostics never rejects, whatever  *)
(* file fails to open.                                                     *)

C6_PrewarmNeverRejects ==
    prewarm.phase # "rejected"

-----------------------------------------------------------------------------
(* Vocabulary of the claims about inline code: the spans of a line as the  *)
(* specification words them.  Positions are 1-based.                       *)

\* A backtick run starts at position i
IsRunStart(line, i) ==
    line[i] = Backtick /\ (i = 1 \/ line[i - 1] # Backtick)

\* The length of the run that starts at i
RunLengthAt(line, i) ==
    CHOOSE k \in 1..(Len(line) - i + 1) :
        /\ \A j \in i..(i + k - 1) : line[j] = Backtick
        /\ (i + k > Len(line) \/ line[i + k] # Backtick)

Least(S) == CHOOSE x \in S : \A y \in S : x <= y

\* The start of the first run at or after p, 0 when there is none
FirstRunFrom(line, p) ==
    LET starts == {i \in p..Len(line) : IsRunStart(line, i)}
    IN  IF starts = {} THEN 0 ELSE Least(starts)

\* The start of the next run after the run at o that has its length, 0 when
\* there is none
CloserOf(line, o) ==
    LET n == RunLengthAt(line, o)
        closers == {i \in (o + n)..Len(line) :
                       IsRunStart(line, i) /\ RunLengthAt(line, i) = n}
    IN  IF closers = {} THEN 0 ELSE Least(closers)

\* The positions of the spans that open at or after p: each span runs from
\* its opening run to the end of its closing run, or to the end of the line
RECURSIVE CodePositionsFrom(_, _)
CodePositionsFrom(line, p) ==
    LET o == FirstRunFrom(line, p)
    IN  IF o = 0
        THEN {}
        ELSE LET c == CloserOf(line, o)
                 n == RunLengthAt(line, o)
             IN  IF c = 0
                 THEN o..Len(line)
                 ELSE (o..(c + n - 1)) \cup CodePositionsFrom(line, c + n)

InlineCode(line) == CodePositionsFrom(line, 1)

-----------------------------------------------------------------------------
(* C11: no bold issue is reported for a bold pattern with a delimiter      *)
(* inside an inline-code span of its line: the two characters at the start *)
(* column of every bold diagnostic are outside every span, and so are the  *)
(* two characters of the closing delimiter, which the range end locates    *)
(* when the underline is on; a line whose * and _ are all inside spans     *)
(* gets no bold issue.                                                     *)

C11_InlineCodeMasked ==
    /\ \A j \in DOMAIN diagnostics :
           diagnostics[j].code \in BoldCodes =>
               LET line == LineAt(diagnostics[j].range.start.line)
                   s == diagnostics[j].range.start.character
                   e == diagnostics[j].range.end.character - 1
               IN  /\ {s + 1, s + 2} \cap InlineCode(line) = {}
                   /\ options.showBoldUnderline =>
                          /\ {e - 1, e} \cap InlineCode(line) = {}
                          /\ <<line[e - 1], line[e]>> = <<line[s + 1], line[s + 2]>>
    /\ \A n \in ScannedLines :
           (\A i \in DOMAIN LineAt(n) :
                LineAt(n)[i] \in {Star, Underscore} => i \in InlineCode(LineAt(n)))
           => BoldDiagnosticsOn(n) = << >>

\* A finished scan of a line the bold scan runs on, whose bold run is between
\* backticks and would be flagged if it were not.
C11_Witness ==
    /\ pc = "done"
    /\ \E n \in ScannedLines :
           /\ BoldScanned(n)
           /\ LineAt(n) # << >>
           /\ LineAt(n)[1] = Backtick
           /\ \E i \in DOMAIN LineAt(n) : LineAt(n)[i] = Star
           /\ BoldDiagnosticsFrom(n, LineAt(n), options, BoldMatches(LineAt(n)), 1) # << >>
           /\ BoldDiagnosticsOn(n) = << >>

-----------------------------------------------------------------------------
(* C12: the step of an open event or of an active-editor event for an      *)
(* eligible document ends with the diagnostics of the document's current   *)
(* content published and the document not waiting for a scan; the step     *)
(* neither waits for nor touches the debouncer's timer, pending or not.    *)

EligibleDocs == {d \in Docs : isMarkdownDocument(d)}

\* What a step of either event implies at once: the document has an entry
\* after it and no other document's entry or last scan has changed.  It is
\* tested before the actions, which take a scan to evaluate.
WritesOnly(d) ==
    /\ published'[d].set
    /\ \A e \in Docs \ {d} : published'[e] = published[e] /\ scanned'[e] = scanned[e]

C12_ImmediateScan ==
    [][\A d \in EligibleDocs :
           (WritesOnly(d) /\ (OpenTextDocument(d) \/ ChangeActiveTextEditor(d))) =>
               /\ published'[d] =
                      [set |-> TRUE,
                       items |-> collectDiagnostics(docText[d],
                                                    getLintOptions(config)).diagnostics]
               /\ scanned'[d].text = docText[d]
               /\ ~dirty'[d]
               /\ timers' = timers
               /\ timeout' = timeout
               /\ quiet' = quiet]_vars

\* D was edited, its debounced scan is pending and not yet due, and D's
\* diagnostics are already those of the content the edit left.
C12_Witness ==
    /\ burst.docs = {"D"}
    /\ burst.runs = 0
    /\ \E t \in timers : t.doc = "D" /\ t.elapsed < REFRESH_DEBOUNCE_MS
    /\ ~dirty["D"]
    /\ scanned["D"].text = docText["D"]
    /\ published["D"] =
           [set |-> TRUE,
            items |-> collectDiagnostics(docText["D"], getLintOptions(config)).diagnostics]

-----------------------------------------------------------------------------
(* C13: the render hints are, in order, one for one the CONTROL_CHAR       *)
(* diagnostics: the i-th hint has the range of the i-th CONTROL_CHAR       *)
(* diagnostic, one character wide; its label is [U+XXXX] and the message   *)
(* of the diagnostic holds (U+XXXX) with the same four digits, which are   *)
(* upper-case hexadecimal digits and spell the code of the character at    *)
(* that column.                                                            *)

ControlDiagnostics == SelectSeq(diagnostics, LAMBDA d : d.code = "MBL005")

UpperHexDigits ==
    <<"0", "1", "2", "3", "4", "5", "6", "7", "8", "9", "A", "B", "C", "D", "E", "F">>

DigitValue(h) == (CHOOSE v \in 1..16 : UpperHexDigits[v] = h) - 1

\* The number four upper-case hexadecimal digits spell
HexValue(hs) ==
    4096 * DigitValue(hs[1]) + 256 * DigitValue(hs[2])
    + 16 * DigitValue(hs[3]) + DigitValue(hs[4])

IsUpperHex(h) == \E v \in 1..16 : UpperHexDigits[v] = h

C13_HintsMatchDiagnostics ==
    /\ Len(controlCharDecorations) = Len(ControlDiagnostics)
    /\ \A i \in DOMAIN controlCharDecorations :
           LET hint == controlCharDecorations[i]
               d == ControlDiagnostics[i]
               digits == SubSeq(hint.contentText, 2, 5)
           IN  /\ hint.range = d.range
               /\ hint.range.end =
                      [line |-> hint.range.start.line,
                       character |-> hint.range.start.character + 1]
               /\ Len(hint.contentText) = 6
               /\ hint.contentText[1] = "[U+"
               /\ hint.contentText[6] = "]"
               /\ \A k \in 1..4 : IsUpperHex(digits[k])
               /\ Len(d.message) = 6
               /\ SubSeq(d.message, 2, 5) = digits
               /\ d.message[1] = "Invisible control character detected (U+"
               /\ HexValue(digits) =
                      LineAt(hint.range.start.line)[hint.range.start.character + 1]

\* A finished scan with three hints, two of them on one line, one of a code
\* that has a letter among its digits.
C13_Witness ==
    /\ pc = "done"
    /\ Len(controlCharDecorations) = 3
    /\ controlCharDecorations[2].range.start.line
           = controlCharDecorations[3].range.start.line
    /\ controlCharDecorations[3].contentText = <<"[U+", "0", "0", "1", "F", "]">>
    /\ \E j \in DOMAIN diagnostics : diagnostics[j].code \in BoldCodes

-----------------------------------------------------------------------------
(* C14: at every point of maskInlineCode's loop the result written so far  *)
(* is as long as the part of the line that was read, and holds a space at  *)
(* every position inside an inline-code span (from an opening backtick run *)
(* of length N through the next run of length exactly N, or to the end of  *)
(* the line) and the line's own character at every other position; so the  *)
(* returned string has the line's length, and it is what the bold scan is  *)
(* given.                                                                  *)

C14_MaskContract ==
    /\ Len(mask.result) = mask.index
    /\ mask.index <= Len(mask.lineText)
    /\ \A i \in DOMAIN mask.result :
           /\ mask.result[i] \in {mask.lineText[i], SpaceChar}
           /\ mask.result[i] =
                  IF i \in InlineCode(mask.lineText) THEN SpaceChar ELSE mask.lineText[i]
    /\ pc = "returned" =>
           /\ Len(mask.result) = Len(mask.lineText)
           /\ mask.result = maskInlineCode(mask.lineText)

\* The line is two backticks, a, one backtick, a, two backticks, a: the single
\* backtick has not closed the span, the last a is kept.
C14_Witness ==
    /\ pc = "returned"
    /\ mask.lineText = <<Backtick, Backtick, LetterA, Backtick, LetterA,
                         Backtick, Backtick, LetterA>>
    /\ mask.result = Repeat(SpaceChar, 7) \o <<LetterA>>
    /\ ~mask.inInlineCode

-----------------------------------------------------------------------------
(* C15: with the underline on, every bold diagnostic starts at the start   *)
(* column s of a match of the line and ends, on the same line, at e + 1    *)
(* where e is the match's exclusive end column; column e holds a CJK       *)
(* character, and e + 1 is at most the line's length, so the clamp to the  *)
(* line's length leaves e + 1 as it is.                                    *)

C15_BoldRange ==
    options.showBoldUnderline =>
        \A j \in DOMAIN diagnostics :
            diagnostics[j].code \in BoldCodes =>
                LET n == diagnostics[j].range.start.line
                    s == diagnostics[j].range.start.character
                    end == diagnostics[j].range.end
                IN  /\ end.line = n
                    /\ \E k \in DOMAIN MatchesOn(n) :
                           LET e == MatchesOn(n)[k].index + MatchesOn(n)[k].length
                           IN  /\ MatchesOn(n)[k].index = s
                               /\ end.character = e + 1
                               /\ e + 1 <= Len(LineAt(n))
                               /\ IsCjk(LineAt(n)[e + 1])

\* A finished scan with the underline on: one bold diagnostic ends at the end
\* of its line, another one before the end of its line.
C15_Witness ==
    /\ pc = "done"
    /\ options.showBoldUnderline
    /\ \E j \in DOMAIN diagnostics :
           /\ diagnostics[j].code \in BoldCodes
           /\ diagnostics[j].range.start.character > 0
           /\ diagnostics[j].range.end.character
                  = Len(LineAt(diagnostics[j].range.start.line))
    /\ \E j \in DOMAIN diagnostics :
           /\ diagnostics[j].code \in BoldCodes
           /\ diagnostics[j].range.end.character
                  < Len(LineAt(diagnostics[j].range.start.line))

-----------------------------------------------------------------------------
(* C16: a debounced scan that was pending for a document when a deletion   *)
(* event for its file was handled does not publish diagnostics for the     *)
(* document: if the document has no entry when the timer fires (no open,   *)
(* active-editor or configuration event has given it one since, and an     *)
(* edit would have replaced the timer), it has none afterwards either.     *)

C16_NoRepublishAfterDelete ==
    [][\A t \in timers :
           (t.deleted /\ ~published[t.doc].set /\ TimerFires(t)) =>
               ~published'[t.doc].set]_vars

-----------------------------------------------------------------------------
(* C17: in the diagnostic sequence of a scan the line numbers never go     *)
(* down; among the diagnostics of one line the CONTROL_CHAR ones come      *)
(* first, in strictly increasing column order, then the bold ones, in      *)
(* strictly increasing start-column order; and a bold diagnostic starts at *)
(* or after the exclusive end of the bold span behind the bold diagnostic  *)
(* before it on the line.                                                  *)

\* The exclusive end column of the match of line n that starts at column s
SpanEnd(n, s) ==
    LET k == CHOOSE k \in DOMAIN MatchesOn(n) : MatchesOn(n)[k].index = s
    IN  s + MatchesOn(n)[k].length

C17_Ordered ==
    \A j \in 1..(Len(diagnostics) - 1) :
        LET a == diagnostics[j]
            b == diagnostics[j + 1]
        IN  /\ a.range.start.line <= b.range.start.line
            /\ a.range.start.line = b.range.start.line =>
                   /\ a.code \in BoldCodes => b.code \in BoldCodes
                   /\ (a.code = "MBL005" /\ b.code = "MBL005") =>
                          a.range.start.character < b.range.start.character
                   /\ (a.code \in BoldCodes /\ b.code \in BoldCodes) =>
                          /\ a.range.start.character < b.range.start.character
                          /\ SpanEnd(a.range.start.line, a.range.start.character)
                                 <= b.range.start.character

\* A finished scan of a line with two control characters, the second one
\* after a flagged bold run that the list has after it.
C17_Witness ==
    /\ pc = "done"
    /\ \E j \in 1..(Len(diagnostics) - 2) :
           /\ diagnostics[j].code = "MBL005"
           /\ diagnostics[j + 1].code = "MBL005"
           /\ diagnostics[j + 2].code \in BoldCodes
           /\ diagnostics[j + 2].range.start.line = diagnostics[j].range.start.line
           /\ diagnostics[j + 2].range.start.character
                  < diagnostics[j + 1].range.start.character
           /\ diagnostics[j].range.start.character
                  < diagnostics[j + 2].range.start.character

-----------------------------------------------------------------------------
(* C18: the scan of every document comes to its return statement, with     *)
(* every line gone through: the empty document, empty lines, a fence or an *)
(* inline-code span left open and lines of control characters included;    *)
(* and every iteration of maskInlineCode's loop leaves index greater than  *)
(* it found it and at most the line's length, so the loop runs at most     *)
(* that many times.                                                        *)

C18_Total ==
    /\ <>(pc = "done")
    /\ [](pc = "done" => lineNumber = Len(document))
    /\ [][(pc = "lineMask" /\ pc' = "lineMask") =>
              /\ mask'.index > mask.index
              /\ mask'.index <= Len(mask.lineText)]_vars

\* The scan has returned on a document whose first line leaves an inline-code
\* span open and whose second line leaves a fence open.
C18_Witness ==
    /\ pc = "done"
    /\ Len(document) = 2
    /\ document[1] = <<Backtick>> \o BoldRun(Star, Bang) \o <<Hangul>>
    /\ document[2] = Str3(Backtick)
    /\ inCodeFence
    /\ diagnostics = << >>

=============================================================================
